---- MODULE Spec2Model ----
(***************************************************************************)
(* Model of year_sheet.py: the YearSheet object (data, year, week_load),   *)
(* its constructor with the four source/year branches, the grid coordinate *)
(* methods _x() and _y(), and the week aggregation _week_load_data().      *)
(*                                                                         *)
(* Day values are floats in the program; here they are integers (a fixed   *)
(* point scale), which keeps sums exact.  An optional argument is a        *)
(* sequence: <<>> is None and <<v>> is the value v.                        *)
(***************************************************************************)
EXTENDS Integers, Sequences, FiniteSets, TLC

\* ---------------------------------------------------------------- bounds
MinYear == 2000
MaxYear == 2028
MaxSeed == 2
MaxPattern == 2

\* ------------------------------------------------------ program constants
DefaultDays == 365
LeapDays == 366
SampleYear == 2021
SampleLeapYear == 2020
InnerWeeksEnd == 52
LastWeekIndex == 52
DaysPerWeek == 7

\* ------------------------------------------------------------ input sets
None == <<>>
Some(v) == <<v>>

Years == MinYear..MaxYear
\* --year is an int or absent; 0 is an int that Python treats as false
YearArgs == {None} \cup {Some(0)} \cup {Some(v) : v \in Years}

FileSizes == {364, 365, 366, 367}
Files == [size : FileSizes, pattern : 1..MaxPattern, readable : BOOLEAN]
SourceArgs == {None} \cup {Some(f) : f \in Files}

\* Python truthiness of an optional argument: None and 0 are false
Truthy(arg) == arg # None /\ arg[1] # 0
\* a source path is a non-empty string whenever it is not None
TruthySource(arg) == arg # None

\* ------------------------------------------------------ calendar (stdlib)
\* calendar.isleap
isleap(yr) == yr % 4 = 0 /\ (yr % 100 # 0 \/ yr % 400 = 0)

DaysInMonth(yr, m) ==
    IF m = 2 THEN (IF isleap(yr) THEN 29 ELSE 28)
    ELSE IF m \in {4, 6, 9, 11} THEN 30 ELSE 31

RECURSIVE DaysBeforeMonth(_, _)
DaysBeforeMonth(yr, m) ==
    IF m = 1 THEN 0 ELSE DaysBeforeMonth(yr, m - 1) + DaysInMonth(yr, m - 1)

DaysBeforeYear(yr) ==
    LET p == yr - 1
    IN  p * 365 + (p \div 4) - (p \div 100) + (p \div 400)

\* calendar.weekday: 0 = Monday .. 6 = Sunday
weekday(yr, m, d) ==
    (DaysBeforeYear(yr) + DaysBeforeMonth(yr, m) + d + 6) % 7

\* ------------------------------------------------------- sequence helpers
np_full(n, v) == [i \in 1..n |-> v]
np_arange(lo, hi) == [i \in 1..(hi - lo) |-> lo + i - 1]

\* ndarray.min()
SeqMin(s) ==
    CHOOSE v \in {s[i] : i \in 1..Len(s)} : \A i \in 1..Len(s) : v <= s[i]

RECURSIVE SumOver(_, _)
SumOver(s, idx) ==
    IF idx = {} THEN 0
    ELSE LET i == CHOOSE j \in idx : TRUE
         IN  s[i] + SumOver(s, idx \ {i})

RECURSIVE SortedSeq(_)
SortedSeq(S) ==
    IF S = {} THEN <<>>
    ELSE LET m == CHOOSE a \in S : \A b \in S : a <= b
         IN  <<m>> \o SortedSeq(S \ {m})

\* ------------------------------------------------------- YearSheet parts
\* np.random.normal(size=days): a sample with values of both signs,
\* one sample per seed
NormalSample(seed, days) ==
    [i \in 1..days |-> ((i * (seed + 2) + seed) % 11) - 5]

\* _generate_random_data
generate_random_data(seed, days) ==
    LET sample == NormalSample(seed, days)
        lowest == SeqMin(sample)
    IN  [i \in 1..days |-> sample[i] - lowest]

\* np.loadtxt on a readable file: pattern 1 is a file of all ones, the
\* other patterns hold varying values of both signs
loadtxt(f) ==
    [i \in 1..f.size |->
        IF f.pattern = 1 THEN 1 ELSE ((i * f.pattern) % 5) - 1]

\* variant of the size check that only rejects short files
parse_file_raises_short_only(size) == size < DefaultDays

\* _parse_file: the size check
parse_file_raises(size) == size \notin {DefaultDays, LeapDays}

\* variant of _get_year_from_data with the two sample years swapped
get_year_from_data_swapped(d) ==
    IF Len(d) = DefaultDays THEN SampleLeapYear ELSE SampleYear

\* _get_year_from_data
get_year_from_data(d) ==
    IF Len(d) = DefaultDays THEN SampleYear ELSE SampleLeapYear

\* variant of match_data_and_year without the regular_void case
match_data_and_year_raises_leap_only(d, yr) ==
    Len(d) = DefaultDays /\ isleap(yr)

\* match_data_and_year: TRUE when it raises
match_data_and_year_raises(d, yr) ==
    LET leap_void == Len(d) = DefaultDays /\ isleap(yr)
        regular_void == Len(d) = LeapDays /\ ~isleap(yr)
    IN  leap_void \/ regular_void

\* variant of the year-only branch that ignores leap years
days_for_year_default(yr) == DefaultDays

\* __init__, year given and no source: the number of days generated
days_for_year(yr) == IF isleap(yr) THEN LeapDays ELSE DefaultDays

\* variant of _get_first_week_days counting from the ISO weekday
get_first_week_days_iso(yr) == 7 - (weekday(yr, 1, 1) + 1)

\* _get_first_week_days
get_first_week_days(yr) == 7 - weekday(yr, 1, 1)

\* _get_last_week_days
get_last_week_days(yr) == weekday(yr, 12, 31) + 1

RECURSIVE np_concatenate(_)
\* np.concatenate of a list of arrays
np_concatenate(arrays) ==
    IF arrays = <<>> THEN <<>>
    ELSE Head(arrays) \o np_concatenate(Tail(arrays))

\* range(1, 52), the numbers of the inner weeks
inner_week_range == np_arange(1, InnerWeeksEnd)

\* variant of _x whose first week is np.ones instead of np.zeros
x_array_ones(yr) ==
    LET first_week == np_full(get_first_week_days(yr), 1)
        last_week == np_full(get_last_week_days(yr), LastWeekIndex)
        inner_weeks == np_concatenate(
            [k \in DOMAIN inner_week_range |->
                np_full(DaysPerWeek, inner_week_range[k])])
    IN  first_week \o inner_weeks \o last_week

\* _x, the array built before the assertion
x_array(yr) ==
    LET first_week == np_full(get_first_week_days(yr), 0)
        last_week == np_full(get_last_week_days(yr), LastWeekIndex)
        inner_weeks == np_concatenate(
            [k \in DOMAIN inner_week_range |->
                np_full(DaysPerWeek, inner_week_range[k])])
    IN  first_week \o inner_weeks \o last_week

\* _y, the array built before the assertion
y_array(yr) ==
    LET first_week == np_arange(1, get_first_week_days(yr) + 1)
        last_week == np_arange(1, get_last_week_days(yr) + 1)
        inner_weeks == np_concatenate(
            [k \in DOMAIN inner_week_range |->
                np_arange(1, DaysPerWeek + 1)])
    IN  first_week \o inner_weeks \o last_week

\* df.groupby('x').day_values.sum().reset_index(): one row per distinct x,
\* ascending
groupby_sum(xs, d) ==
    LET keys == SortedSeq({xs[i] : i \in 1..Len(xs)})
    IN  [k \in 1..Len(keys) |->
            [x |-> keys[k],
             day_values |-> SumOver(d, {i \in 1..Len(xs) : xs[i] = keys[k]})]]

\* ------------------------------------------------------------------ state
VARIABLES
    pc,            \* "new", "constructed" or "raised"
    error,         \* the exception __init__ raised, "none" otherwise
    arg_source,    \* the arguments __init__ was called with
    arg_year,
    arg_bare,
    data,          \* self.data
    year,          \* self.year
    week_load,     \* self.week_load
    x_status,      \* "none", "returned" or "AssertionError"
    x,             \* the array _x() returned
    y_status,
    y,
    wl_status,
    wl             \* the rows _week_load_data() returned

vars == <<pc, error, arg_source, arg_year, arg_bare, data, year, week_load,
          x_status, x, y_status, y, wl_status, wl>>

results == <<x_status, x, y_status, y, wl_status, wl>>
fields == <<data, year, week_load>>

Init ==
    /\ pc = "new"
    /\ error = "none"
    /\ arg_source = None
    /\ arg_year = None
    /\ arg_bare = FALSE
    /\ data = <<>>
    /\ year = 0
    /\ week_load = FALSE
    /\ x_status = "none"
    /\ x = <<>>
    /\ y_status = "none"
    /\ y = <<>>
    /\ wl_status = "none"
    /\ wl = <<>>

\* __init__ leaves by an exception raised in _parse_file: no object is
\* returned and no field was assigned
Raise(source, yr, bare, exc) ==
    /\ pc' = "raised"
    /\ error' = exc
    /\ arg_source' = source
    /\ arg_year' = yr
    /\ arg_bare' = bare
    /\ UNCHANGED <<fields, results>>

\* __init__ leaves by the exception of match_data_and_year: no object is
\* returned; self.data and self.year were assigned before the check
RaiseMismatch(source, yr, bare, d) ==
    /\ pc' = "raised"
    /\ error' = "YearMismatchError"
    /\ arg_source' = source
    /\ arg_year' = yr
    /\ arg_bare' = bare
    /\ data' = d
    /\ year' = yr[1]
    /\ UNCHANGED <<week_load, results>>

\* __init__ completes
Construct(source, yr, bare, d, resolved) ==
    /\ pc' = "constructed"
    /\ error' = "none"
    /\ arg_source' = source
    /\ arg_year' = yr
    /\ arg_bare' = bare
    /\ data' = d
    /\ year' = resolved
    /\ week_load' = ~bare
    /\ UNCHANGED results

\* _parse_file as called from __init__: the exception it leaves by, "none"
\* when it returns the array
parse_file_error(f) ==
    IF ~f.readable THEN "ParseError"
    ELSE IF parse_file_raises(f.size) THEN "SizeValidationError"
    ELSE "none"

\* __init__: not source and not year
InitNeither ==
    \E source \in SourceArgs, yr \in YearArgs, bare \in BOOLEAN,
       seed \in 1..MaxSeed :
        /\ pc = "new"
        /\ ~TruthySource(source) /\ ~Truthy(yr)
        /\ LET d == generate_random_data(seed, DefaultDays)
           IN  Construct(source, yr, bare, d, get_year_from_data(d))

\* __init__: source and not year
InitSourceOnly ==
    \E source \in SourceArgs, yr \in YearArgs, bare \in BOOLEAN :
        /\ pc = "new"
        /\ TruthySource(source) /\ ~Truthy(yr)
        /\ LET exc == parse_file_error(source[1])
               d == loadtxt(source[1])
           IN  IF exc # "none" THEN Raise(source, yr, bare, exc)
               ELSE Construct(source, yr, bare, d, get_year_from_data(d))

\* __init__: not source and year
InitYearOnly ==
    \E source \in SourceArgs, yr \in YearArgs, bare \in BOOLEAN,
       seed \in 1..MaxSeed :
        /\ pc = "new"
        /\ ~TruthySource(source) /\ Truthy(yr)
        /\ LET d == generate_random_data(seed, days_for_year(yr[1]))
           IN  Construct(source, yr, bare, d, yr[1])

\* __init__: both source and year
InitBoth ==
    \E source \in SourceArgs, yr \in YearArgs, bare \in BOOLEAN :
        /\ pc = "new"
        /\ TruthySource(source) /\ Truthy(yr)
        /\ LET exc == parse_file_error(source[1])
               d == loadtxt(source[1])
           IN  IF exc # "none" THEN Raise(source, yr, bare, exc)
               ELSE IF match_data_and_year_raises(d, yr[1])
                    THEN RaiseMismatch(source, yr, bare, d)
                    ELSE Construct(source, yr, bare, d, yr[1])

\* _x()
CallX ==
    /\ pc = "constructed"
    /\ x_status = "none"
    /\ LET arr == x_array(year)
       IN  IF Len(arr) = Len(data)
           THEN x_status' = "returned" /\ x' = arr
           ELSE x_status' = "AssertionError" /\ x' = <<>>
    /\ UNCHANGED <<pc, error, arg_source, arg_year, arg_bare, fields,
                   y_status, y, wl_status, wl>>

\* _y()
CallY ==
    /\ pc = "constructed"
    /\ y_status = "none"
    /\ LET arr == y_array(year)
       IN  IF Len(arr) = Len(data)
           THEN y_status' = "returned" /\ y' = arr
           ELSE y_status' = "AssertionError" /\ y' = <<>>
    /\ UNCHANGED <<pc, error, arg_source, arg_year, arg_bare, fields,
                   x_status, x, wl_status, wl>>

\* _week_load_data(), through _yearsheet_data_as_df()
CallWeekLoadData ==
    /\ pc = "constructed"
    /\ wl_status = "none"
    /\ LET xs == x_array(year)
           ys == y_array(year)
       IN  IF Len(xs) # Len(data) \/ Len(ys) # Len(data)
           THEN wl_status' = "AssertionError" /\ wl' = <<>>
           ELSE wl_status' = "returned" /\ wl' = groupby_sum(xs, data)
    /\ UNCHANGED <<pc, error, arg_source, arg_year, arg_bare, fields,
                   x_status, x, y_status, y>>

Next ==
    \/ InitNeither
    \/ InitSourceOnly
    \/ InitYearOnly
    \/ InitBoth
    \/ CallX
    \/ CallY
    \/ CallWeekLoadData

Spec == Init /\ [][Next]_vars

TypeOK ==
    /\ pc \in {"new", "constructed", "raised"}
    /\ x_status \in {"none", "returned", "AssertionError"}
    /\ y_status \in {"none", "returned", "AssertionError"}
    /\ wl_status \in {"none", "returned", "AssertionError"}
    /\ week_load \in BOOLEAN

\* ------------------------------------------------------- calendar facts
\* The ISO weekday (1 = Monday .. 7 = Sunday) of Jan 1, counted year by
\* year from Saturday Jan 1 2000; independent of the ordinal arithmetic
\* of weekday above.
RECURSIVE IsoWeekdayJan1(_)
IsoWeekdayJan1(yr) ==
    IF yr = 2000 THEN 6
    ELSE IF yr > 2000
         THEN LET prev == IsoWeekdayJan1(yr - 1)
                  len == IF isleap(yr - 1) THEN 366 ELSE 365
              IN  ((prev - 1 + len) % 7) + 1
         ELSE LET next == IsoWeekdayJan1(yr + 1)
                  len == IF isleap(yr) THEN 366 ELSE 365
              IN  ((next - 1 - len) % 7) + 1

\* The ISO weekday of the n-th day of the year (n = 1 is Jan 1)
IsoWeekdayOfDay(yr, n) == ((IsoWeekdayJan1(yr) - 1 + (n - 1)) % 7) + 1

\* The number of days of a calendar year
DaysInYear(yr) == IF isleap(yr) THEN 366 ELSE 365

SourceGiven == arg_source # None
YearGiven == arg_year # None /\ arg_year[1] # 0
SourceSize == arg_source[1].size

\* ---------------------------------------------------------------- claims

\* C1: for every year Y, firstWeekDays(Y) + 51*7 + lastWeekDays(Y) is 365
\* when Y is not leap and 366 when Y is leap, whatever the weekday of Jan 1.
C1_WeeksCoverYear ==
    pc = "constructed" =>
        get_first_week_days(year) + 51 * 7 + get_last_week_days(year)
            = DaysInYear(year)

\* C2: for every constructed YearSheet, _x() and _y() return without their
\* length assertion failing and the two arrays are as long as the data.
C2_LengthAssertionsHold ==
    pc = "constructed" =>
        /\ x_status # "AssertionError"
        /\ y_status # "AssertionError"
        /\ x_status = "returned" => Len(x) = Len(data)
        /\ y_status = "returned" => Len(y) = Len(data)

\* C3: with both a source and a year, construction raises the year mismatch
\* error exactly when the series has 366 values and the year is not leap or
\* 365 values and the year is leap; otherwise, with a 365/366-value source,
\* it succeeds and the resolved year is the given year.
C3_MismatchExactly ==
    (/\ pc # "new" /\ SourceGiven /\ YearGiven
     /\ arg_source[1].readable /\ SourceSize \in {365, 366}) =>
        LET leap == isleap(arg_year[1])
            mismatch == \/ SourceSize = 366 /\ ~leap
                        \/ SourceSize = 365 /\ leap
        IN  /\ mismatch => pc = "raised" /\ error = "YearMismatchError"
            /\ ~mismatch => /\ pc = "constructed" /\ error = "none"
                            /\ year = arg_year[1]
                            /\ Len(data) = SourceSize

C3_Witness ==
    /\ pc = "raised" /\ error = "YearMismatchError"
    /\ SourceGiven /\ YearGiven
    /\ SourceSize = 366 /\ ~isleap(arg_year[1])

\* C4: a source whose number of values is not 365 or 366 always fails with
\* the size validation error, with or without a year, and no YearSheet is
\* produced.
C4_SizeErrorFirst ==
    (/\ pc # "new" /\ SourceGiven
     /\ arg_source[1].readable /\ SourceSize \notin {365, 366}) =>
        /\ pc = "raised" /\ error = "SizeValidationError"
        /\ data = <<>> /\ year = 0
        /\ x_status = "none" /\ y_status = "none" /\ wl_status = "none"

C4_Witness ==
    /\ pc = "raised" /\ error = "SizeValidationError"
    /\ SourceGiven /\ YearGiven /\ SourceSize = 367
    /\ ~isleap(arg_year[1])

\* C5: with no year given the resolved year comes from the series length
\* alone, 2021 for 365 values and 2020 for 366 values; with neither source
\* nor year the series has 365 values and the year is 2021.
C5_YearInferred ==
    (pc = "constructed" /\ ~YearGiven) =>
        /\ Len(data) = 365 => year = 2021
        /\ Len(data) = 366 => year = 2020
        /\ ~SourceGiven => Len(data) = 365 /\ year = 2021

C5_Witness ==
    /\ pc = "constructed" /\ ~YearGiven /\ SourceGiven
    /\ Len(data) = 366 /\ year = 2020

\* C6: with a year given and no source the generated series has 366 values
\* if the year is leap and 365 otherwise, and the resolved year is the
\* given year.
C6_GeneratedSize ==
    (pc # "new" /\ YearGiven /\ ~SourceGiven) =>
        /\ pc = "constructed"
        /\ Len(data) = (IF isleap(arg_year[1]) THEN 366 ELSE 365)
        /\ year = arg_year[1]

C6_Witness ==
    /\ pc = "constructed" /\ YearGiven /\ ~SourceGiven
    /\ isleap(arg_year[1]) /\ Len(data) = 366

\* C7: for every day of the year the weekdayIndex of that day is in 1..7
\* and is the ISO weekday of that calendar date, the days of the partial
\* first week included.
C7_WeekdayIsIso ==
    (pc = "constructed" /\ y_status # "none") =>
        /\ y_status = "returned"
        /\ Len(y) = DaysInYear(year)
        /\ \A n \in 1..Len(y) :
              y[n] \in 1..7 /\ y[n] = IsoWeekdayOfDay(year, n)

\* C8: for every constructed YearSheet the week aggregation returns exactly
\* 53 entries, one per weekIndex 0..52 in ascending order, the value at
\* weekIndex k being the sum of the values of the days whose weekIndex is k;
\* for a series of all ones that is firstWeekDays, then 7 for weeks 1..51,
\* then lastWeekDays.
C8_WeekAggregation ==
    (pc = "constructed" /\ wl_status # "none") =>
        /\ wl_status = "returned"
        /\ Len(wl) = 53
        /\ \A k \in 0..52 :
              /\ wl[k + 1].x = k
              /\ LET first == get_first_week_days(year)
                     days == IF k = 0 THEN 1..first
                             ELSE IF k = 52
                                  THEN (first + 357 + 1)..Len(data)
                                  ELSE (first + 7 * (k - 1) + 1)
                                           ..(first + 7 * k)
                 IN  /\ wl[k + 1].day_values = SumOver(data, days)
                     /\ (\A n \in 1..Len(data) : data[n] = 1) =>
                            wl[k + 1].day_values =
                                IF k = 0 THEN first
                                ELSE IF k = 52
                                     THEN get_last_week_days(year)
                                     ELSE 7

\* C9 as stated: firstWeekDays(Y) is 7 minus the ISO weekday of Jan 1 of Y,
\* the ISO weekday being numbered 1 = Monday .. 7 = Sunday.
C9_SevenMinusIso ==
    pc = "constructed" =>
        get_first_week_days(year) = 7 - IsoWeekdayJan1(year)

\* C9 as amended: firstWeekDays(Y) is 8 minus the ISO weekday of Jan 1 of Y
\* (7 minus the weekday numbered 0 = Monday .. 6 = Sunday), so that a year
\* starting on Monday has 7 and a year starting on Sunday has 1.
C9_EightMinusIso ==
    pc = "constructed" =>
        /\ get_first_week_days(year) = 8 - IsoWeekdayJan1(year)
        /\ get_first_week_days(year) \in 1..7

C9_Witness ==
    /\ pc = "constructed" /\ year = 2021
    /\ IsoWeekdayJan1(year) = 5
    /\ get_first_week_days(year) = 3

\* C10: in the array _x() returns, the first firstWeekDays entries are 0,
\* the next 51 groups of 7 entries are 1..51 and the final lastWeekDays
\* entries are 52; the array is non-decreasing, within 0..52 and starts
\* with 0.
C10_WeekIndexLayout ==
    x_status = "returned" =>
        LET first == get_first_week_days(year)
            last == get_last_week_days(year)
        IN  /\ Len(x) = first + 51 * 7 + last
            /\ \A n \in 1..first : x[n] = 0
            /\ \A g \in 1..51 : \A j \in 1..7 : x[first + 7 * (g - 1) + j] = g
            /\ \A n \in 1..last : x[first + 357 + n] = 52
            /\ \A n \in 1..(Len(x) - 1) : x[n] <= x[n + 1]
            /\ \A n \in 1..Len(x) : x[n] \in 0..52
            /\ x[1] = 0

C10_Witness ==
    /\ x_status = "returned" /\ year = 2021
    /\ Len(x) = 365 /\ x[3] = 0 /\ x[4] = 1 /\ x[360] = 51 /\ x[361] = 52
====
